---- MODULE Spec2Model ----
(***************************************************************************)
(* Model of DiskAnalyzer (src/Disk Space Analyzer/main.py): the recursive  *)
(* scanner safe_walk, the driver analyze_directory, the per-file           *)
(* get_file_info / get_file_hash, the aggregator calculate_folder_size and *)
(* the grouping and ordering of create_duplicates_sheet.                   *)
(*                                                                         *)
(* The directory tree is the input.  Entries are numbered 1..MaxNodes, the *)
(* scan root is entry 0; an entry's path is identified with its number.    *)
(* Symbolic links carry a target; file contents are abstracted to the      *)
(* identity of the first 1 MiB (head) and of the rest (tail).              *)
(***************************************************************************)
EXTENDS Integers, Sequences, FiniteSets, TLC

\* ---------------------------------------------------------------- bounds
MaxNodes == 3
MaxFail == 1
MaxRaise == 1
NumHeads == 2

\* ------------------------------------------------------ program constants
HashLimit == 1024 * 1024
DedupCeiling == 100 * 1024 * 1024

Root == 0
None == -1
MaxStack == MaxNodes + 2

\* File contents offered to the scan: 10 bytes, exactly 1 MiB, 1 MiB + 1
\* sharing the same first 1 MiB, and a file at the dedup ceiling.
MainProfiles ==
  << [size |-> 10, head |-> 1, tail |-> 0],
     [size |-> HashLimit, head |-> 1, tail |-> 0],
     [size |-> HashLimit + 1, head |-> 1, tail |-> 1],
     [size |-> DedupCeiling, head |-> 1, tail |-> 1] >>

\* File contents offered to the duplicates report: a small file, and files
\* of 1, 2 and 3 MiB of which the first and the last share their first 1 MiB.
ReportProfiles ==
  << [size |-> 10, head |-> 1, tail |-> 0],
     [size |-> HashLimit, head |-> 1, tail |-> 0],
     [size |-> 2 * HashLimit, head |-> 2, tail |-> 1],
     [size |-> 3 * HashLimit, head |-> 1, tail |-> 1] >>

Profiles == MainProfiles \o ReportProfiles

NoContent == [size |-> 0, head |-> 0, tail |-> 0]

VARIABLES
  fs,            \* the directory tree: entry -> [parent, kind, tgt, prof]
  pc,            \* position of analyze_directory: walk, body, final, done
  stack,         \* active safe_walk generator frames: [dir, idx]
  pending,       \* directory safe_walk is about to list, or None
  cur,           \* entry just yielded to the driver loop, or None
  yielded,       \* sequence of entries safe_walk has yielded so far
  files_data,    \* self.files_data
  folders_data,  \* self.folders_data
  file_types_summary, \* self.file_types_summary
  duplicates,    \* self.duplicates: digest -> sequence of members
  errors,        \* self.errors
  failures,      \* history: filesystem calls that failed during the scan
  lastBad,       \* history: calls that failed in the latest aggregation
  hfiles,        \* hashing harness: the pair of file contents
  hdigests,      \* hashing harness: their digests, once computed
  rev,           \* os.scandir returns names in descending order
  sheet,         \* rows of the "Duplicate Files" sheet, once written
  prev           \* totals of the scan of an earlier DiskAnalyzer, if any

scanVars == << fs, pc, stack, pending, cur, yielded, files_data, folders_data,
               file_types_summary, duplicates, errors, failures, lastBad >>
hashVars == << hfiles, hdigests >>
auxVars == << rev, sheet, prev >>
vars == << fs, pc, stack, pending, cur, yielded, files_data, folders_data,
           file_types_summary, duplicates, errors, failures, lastBad,
           hfiles, hdigests, rev, sheet, prev >>

\* ------------------------------------------------------------ the tree
Nodes == 1 .. Len(fs)
Kind(n) == IF n = Root THEN "dir" ELSE fs[n].kind
Parent(n) == fs[n].parent

\* A tree entry: a regular file with a content profile, a directory, or a
\* symbolic link (tgt = None: dangling).
EntryChoices(n) ==
  { [parent |-> p, kind |-> "file", tgt |-> None, prof |-> i] :
       p \in 0 .. (n - 1), i \in 1 .. Len(MainProfiles) }
  \cup { [parent |-> p, kind |-> "dir", tgt |-> None, prof |-> 0] :
       p \in 0 .. (n - 1) }
  \cup { [parent |-> p, kind |-> "link", tgt |-> t, prof |-> 0] :
       p \in 0 .. (n - 1), t \in ((None .. MaxNodes) \ {n}) }

RECURSIVE TreesOf(_)
\* Every tree of k entries: an entry's parent is the root or an earlier
\* entry that is a real directory.
TreesOf(k) ==
  IF k = 0 THEN { << >> }
  ELSE UNION { { Append(t, e) :
                   e \in { x \in EntryChoices(k) :
                             x.parent = Root \/ t[x.parent].kind = "dir" } } :
               t \in TreesOf(k - 1) }

\* The trees of at most MaxNodes entries; a link names the root, another
\* entry of the tree, or nothing.
Trees ==
  { t \in UNION { TreesOf(k) : k \in 0 .. MaxNodes } :
      \A n \in 1 .. Len(t) : t[n].tgt <= Len(t) }

RECURSIVE ResolveFuel(_, _)
ResolveFuel(n, fuel) ==
  IF n = None THEN None
  ELSE IF n = Root THEN Root
  ELSE IF fs[n].kind # "link" THEN n
  ELSE IF fuel = 0 THEN None
  ELSE ResolveFuel(fs[n].tgt, fuel - 1)

\* What a path names once symbolic links are followed (None: dangling or a
\* loop of links).
Resolve(n) == ResolveFuel(n, MaxNodes)

RECURSIVE Ancestors(_)
Ancestors(n) == IF n = Root THEN {} ELSE {Parent(n)} \cup Ancestors(Parent(n))

Depth(n) == Cardinality(Ancestors(n))

Children(d) == { n \in Nodes : Parent(n) = d }

RECURSIVE SortedSeq(_)
SortedSeq(S) ==
  IF S = {} THEN << >>
  ELSE LET m == CHOOSE x \in S : \A y \in S : x <= y
       IN << m >> \o SortedSeq(S \ {m})

Reverse(q) == [i \in 1 .. Len(q) |-> q[Len(q) + 1 - i]]

\* os.scandir(path): the entries of the directory the path names, in the
\* order the file system returns them: by name, ascending or descending.
Listing(d) ==
  IF rev THEN Reverse(SortedSeq(Children(d))) ELSE SortedSeq(Children(d))

\* item.is_dir(follow_symlinks=False)
IsDirFollow(n) == Resolve(n) # None /\ Kind(Resolve(n)) = "dir"
IsDirNoFollow(n) == Kind(n) = "dir"

\* Path.is_file() / Path.is_dir(): both follow symbolic links.
PathIsFile(n) == Resolve(n) # None /\ Kind(Resolve(n)) = "file"
PathIsDir(n) == Resolve(n) # None /\ Kind(Resolve(n)) = "dir"

Content(n) ==
  IF PathIsFile(n) THEN Profiles[fs[Resolve(n)].prof] ELSE NoContent

\* Path.suffix: odd-numbered entries are named "<n>.txt", even ones "<n>".
Extension(n) == IF n % 2 = 1 THEN ".txt" ELSE "no_extension"

\* ------------------------------------------------------- get_file_hash
\* The bytes a read returns: how many, and which.  A file of at most k bytes
\* is returned whole; of a longer one only the first k bytes are seen.
ReadPrefix(c, k) ==
  IF c.size <= k THEN [len |-> c.size, head |-> c.head, tail |-> c.tail]
  ELSE [len |-> k, head |-> c.head, tail |-> 0]

\* iter(lambda: f.read(4096), b""): every chunk up to end of file.
ReadAll(c) == [len |-> c.size, head |-> c.head, tail |-> c.tail]

\* hashlib.md5 over the bytes fed to it, taken to be collision-free.
Md5(bytes) == bytes

NoHash == [len |-> -1, head |-> 0, tail |-> 0]

\* quick and os.path.getsize(path_str) > 1024*1024
UsesQuickReadNever(size) == FALSE
UsesQuickRead(size) == size > HashLimit

\* get_file_hash(file_path): the digest, or NoHash (Python None) when the
\* file cannot be opened or read.
GetFileHash(c, readOk) ==
  IF ~readOk THEN NoHash
  ELSE IF UsesQuickRead(c.size) THEN Md5(ReadPrefix(c, HashLimit))
  ELSE Md5(ReadAll(c))

\* ------------------------------------------------------- get_file_info
\* stat.st_size < 100*1024*1024
DedupEligibleAtCeiling(size) == size <= DedupCeiling
DedupEligible(size) == size < DedupCeiling

FileInfo(n, h) ==
  [path |-> n, parent_folder |-> Parent(n), extension |-> Extension(n),
   size_bytes |-> Content(n).size, depth |-> Depth(n), hash |-> h]

DupMember(n) == [path |-> n, size |-> Content(n).size]

\* self.duplicates[file_hash].append(...) on a defaultdict(list)
DupInsertTwice(d, h, m) ==
  IF h \in DOMAIN d THEN [d EXCEPT ![h] = @ \o << m, m >>]
  ELSE [k \in (DOMAIN d) \cup {h} |-> IF k = h THEN << m, m >> ELSE d[k]]
DupInsert(d, h, m) ==
  IF h \in DOMAIN d THEN [d EXCEPT ![h] = Append(@, m)]
  ELSE [k \in (DOMAIN d) \cup {h} |-> IF k = h THEN << m >> ELSE d[k]]

\* self.file_types_summary[ext]['count'] += 1; ...['size'] += size_bytes
SummaryAdd(s, ext, size) ==
  IF ext \in DOMAIN s
  THEN [s EXCEPT ![ext] = [count |-> @.count + 1, size |-> @.size + size]]
  ELSE [k \in (DOMAIN s) \cup {ext} |->
          IF k = ext THEN [count |-> 1, size |-> size] ELSE s[k]]

\* ------------------------------------------------ calculate_folder_size
IsLink(n) == n # Root /\ fs[n].kind = "link"

RECURSIVE Walked(_, _, _)
\* os.walk(top) with followlinks=False and onerror=None lists directory d:
\* d is what top names, or a real (not symlinked) subdirectory of a listed
\* directory -- and its own scandir did not fail (a failed listing is
\* dropped silently).  `bad` holds the entries whose scandir or getsize
\* fails during this walk.
Walked(d, top, bad) ==
  /\ d \notin bad
  /\ \/ d = Resolve(top)
     \/ d # Root /\ Kind(d) = "dir" /\ Walked(Parent(d), top, bad)

\* the (root, dirs, files) triples of os.walk(top), by their roots
OsWalk(top, bad) ==
  IF PathIsDir(top) THEN { d \in Nodes \cup {Root} : Walked(d, top, bad) }
  ELSE {}

\* dirs and files of all triples: entries of listed directories, split by
\* is_dir() (which follows symbolic links)
WalkDirs(top, bad) ==
  { n \in Nodes : Parent(n) \in OsWalk(top, bad) /\ PathIsDir(n) }
WalkFiles(top, bad) ==
  { n \in Nodes : Parent(n) \in OsWalk(top, bad) /\ ~PathIsDir(n) }

\* os.path.getsize(file_path) succeeded
GetSizeOkUntilFailure(f, bad) ==
  f \notin bad /\ PathIsFile(f) /\ \A b \in bad : b > f \/ PathIsDir(b)
GetSizeOk(f, bad) == f \notin bad /\ PathIsFile(f)

RECURSIVE SumFileSizes(_, _, _)
\* the loop over files: total_size += os.path.getsize(...), a failing file
\* is passed over; entries taken in number order from i on
SumFileSizes(files, bad, i) ==
  IF i > Len(fs) THEN 0
  ELSE (IF i \in files /\ GetSizeOk(i, bad) THEN Content(i).size ELSE 0)
       + SumFileSizes(files, bad, i + 1)

\* calculate_folder_size(folder_path): (total_size, file_count,
\* subfolder_count)
CalculateFolderSize(folder, bad) ==
  [size |-> SumFileSizes(WalkFiles(folder, bad), bad, 1),
   files |-> Cardinality(WalkFiles(folder, bad)),
   subs |-> Cardinality(WalkDirs(folder, bad))]

\* The entries a walk of `folder` lists or sizes: where a call can fail.
Touched(folder) == OsWalk(folder, {}) \cup WalkFiles(folder, {})

FolderInfo(n, agg) ==
  [path |-> n, parent_folder |-> IF n = Root THEN None ELSE Parent(n),
   size_bytes |-> agg.size, file_count |-> agg.files,
   subfolder_count |-> agg.subs, depth |-> Depth(n)]

\* ------------------------------------------------------------- the scan
EmptyMap == [k \in {} |-> 0]

\* no earlier scan to compare with
NoTotals == [files |-> -1, folders |-> -1, size |-> -1, rev |-> FALSE]

Init ==
  /\ fs \in Trees
  /\ pc = "walk"
  /\ stack = << >>
  /\ pending = Root
  /\ cur = None
  /\ yielded = << >>
  /\ files_data = << >>
  /\ folders_data = << >>
  /\ file_types_summary = EmptyMap
  /\ duplicates = EmptyMap
  /\ errors = << >>
  /\ failures = {}
  /\ lastBad = {}
  /\ hfiles = << >>
  /\ hdigests = << >>
  /\ rev = FALSE
  /\ sheet = << >>
  /\ prev = NoTotals

\* failures that are exceptions raised in the driver itself, not a failing
\* scandir, stat, read or getsize
RaiseOps == {"classify", "folder", "loop", "rootcalc"}
Raised == { f \in failures : f.op \in RaiseOps }

CanFail(k) == Cardinality(failures \ Raised) + k <= MaxFail
CanRaise == Cardinality(Raised) < MaxRaise

Top == stack[Len(stack)]

\* yield from self.safe_walk(item.path): the callee runs to its end before
\* the caller's loop resumes.
PushFrameBehind(st, f) == << f >> \o st
PushFrame(st, f) == Append(st, f)

\* except Exception in safe_walk: only the generator whose scandir failed
\* ends; the generators of the enclosing directories stay suspended.
AfterScanErrorAbort(st) == << >>
AfterScanError(st) == st

\* safe_walk(path): os.scandir(path) succeeds, the generator starts
\* iterating the listing.
ScanDirOk ==
  /\ pc = "walk" /\ pending # None
  /\ Len(stack) < MaxStack
  /\ stack' = PushFrame(stack, [dir |-> Resolve(pending), idx |-> 0])
  /\ pending' = None
  /\ UNCHANGED << fs, pc, cur, yielded, files_data, folders_data,
                  file_types_summary, duplicates, errors, failures, lastBad >>
  /\ UNCHANGED hashVars /\ UNCHANGED auxVars

\* a safe_walk that ended on a failed scandir without logging it
ScanDirFailSilent ==
  /\ pc = "walk" /\ pending # None
  /\ CanFail(1)
  /\ failures' = failures \cup {[op |-> "scandir", path |-> pending, by |-> None]}
  /\ pending' = None
  /\ UNCHANGED << fs, pc, stack, cur, yielded, files_data, folders_data,
                  file_types_summary, duplicates, errors, lastBad >>
  /\ UNCHANGED hashVars /\ UNCHANGED auxVars

\* safe_walk(path): os.scandir(path) raises; "Error scanning: {path}" is
\* logged and this generator ends, the caller goes on with its own listing.
ScanDirFail ==
  /\ pc = "walk" /\ pending # None
  /\ CanFail(1)
  /\ errors' = Append(errors, [kind |-> "scan", path |-> pending])
  /\ failures' = failures \cup {[op |-> "scandir", path |-> pending, by |-> None]}
  /\ pending' = None
  /\ stack' = AfterScanError(stack)
  /\ UNCHANGED << fs, pc, cur, yielded, files_data, folders_data,
                  file_types_summary, duplicates, lastBad >>
  /\ UNCHANGED hashVars /\ UNCHANGED auxVars

\* for item in os.scandir(path): yield Path(item.path); on resumption the
\* generator recurses into the item if item.is_dir(follow_symlinks=False).
YieldItem ==
  /\ pc = "walk" /\ pending = None /\ stack # << >>
  /\ Top.idx < Len(Listing(Top.dir))
  /\ LET item == Listing(Top.dir)[Top.idx + 1]
     IN /\ cur' = item
        /\ yielded' = Append(yielded, item)
        /\ pending' = IF IsDirNoFollow(item) THEN item ELSE None
  /\ stack' = [stack EXCEPT ![Len(stack)].idx = @ + 1]
  /\ pc' = "body"
  /\ UNCHANGED << fs, files_data, folders_data, file_types_summary,
                  duplicates, errors, failures, lastBad >>
  /\ UNCHANGED hashVars /\ UNCHANGED auxVars

\* the listing is exhausted: this safe_walk generator returns to its caller
WalkReturn ==
  /\ pc = "walk" /\ pending = None /\ stack # << >>
  /\ Top.idx >= Len(Listing(Top.dir))
  /\ stack' = SubSeq(stack, 1, Len(stack) - 1)
  /\ UNCHANGED << fs, pc, pending, cur, yielded, files_data, folders_data,
                  file_types_summary, duplicates, errors, failures, lastBad >>
  /\ UNCHANGED hashVars /\ UNCHANGED auxVars

\* the outermost generator is exhausted: the for loop of analyze_directory
\* ends
WalkExhausted ==
  /\ pc = "walk" /\ pending = None /\ stack = << >>
  /\ pc' = "final"
  /\ UNCHANGED << fs, stack, pending, cur, yielded, files_data, folders_data,
                  file_types_summary, duplicates, errors, failures, lastBad >>
  /\ UNCHANGED hashVars /\ UNCHANGED auxVars

\* loop body, item_path.is_file(): get_file_info succeeds; the record goes
\* to files_data and the per-extension summary, and, when the file is below
\* the ceiling and could be hashed, to the duplicate index.
ProcessFile ==
  /\ pc = "body" /\ PathIsFile(cur)
  /\ \E readOk \in BOOLEAN :
       LET size == Content(cur).size
           hashed == DedupEligible(size)
           h == IF hashed THEN GetFileHash(Content(cur), readOk) ELSE NoHash
           info == FileInfo(cur, h)
       IN /\ (~readOk) => (hashed /\ CanFail(1))
          /\ failures' = IF readOk THEN failures
                         ELSE failures \cup
                                {[op |-> "read", path |-> cur, by |-> None]}
          /\ duplicates' = IF h # NoHash
                           THEN DupInsert(duplicates, h, DupMember(cur))
                           ELSE duplicates
          /\ files_data' = Append(files_data, info)
          /\ file_types_summary' =
               SummaryAdd(file_types_summary, info.extension, info.size_bytes)
  /\ pc' = "walk"
  /\ UNCHANGED << fs, stack, pending, cur, yielded, folders_data, errors,
                  lastBad >>
  /\ UNCHANGED hashVars /\ UNCHANGED auxVars

\* a get_file_info that swallowed the failure without logging it
ProcessFileStatFailSilent ==
  /\ pc = "body" /\ PathIsFile(cur)
  /\ CanFail(1)
  /\ failures' = failures \cup {[op |-> "stat", path |-> cur, by |-> None]}
  /\ pc' = "walk"
  /\ UNCHANGED << fs, stack, pending, cur, yielded, files_data, folders_data,
                  file_types_summary, duplicates, errors, lastBad >>
  /\ UNCHANGED hashVars /\ UNCHANGED auxVars

\* loop body, item_path.is_file(): os.stat raises inside get_file_info;
\* "Error reading file {file_path}" is logged and None is returned.
ProcessFileStatFail ==
  /\ pc = "body" /\ PathIsFile(cur)
  /\ CanFail(1)
  /\ errors' = Append(errors, [kind |-> "file", path |-> cur])
  /\ failures' = failures \cup {[op |-> "stat", path |-> cur, by |-> None]}
  /\ pc' = "walk"
  /\ UNCHANGED << fs, stack, pending, cur, yielded, files_data, folders_data,
                  file_types_summary, duplicates, lastBad >>
  /\ UNCHANGED hashVars /\ UNCHANGED auxVars

WalkFailures(folder, bad) ==
  { [op |-> "walk", path |-> b, by |-> folder] : b \in bad }

\* loop body, item_path.is_dir(): calculate_folder_size re-walks the
\* subtree and a FolderRecord is appended.
ProcessFolder ==
  /\ pc = "body" /\ ~PathIsFile(cur) /\ PathIsDir(cur)
  /\ \E bad \in SUBSET Touched(cur) :
        /\ CanFail(Cardinality(bad))
        /\ folders_data' =
             Append(folders_data, FolderInfo(cur, CalculateFolderSize(cur, bad)))
        /\ failures' = failures \cup WalkFailures(cur, bad)
        /\ lastBad' = bad
  /\ pc' = "walk"
  /\ UNCHANGED << fs, stack, pending, cur, yielded, files_data,
                  file_types_summary, duplicates, errors >>
  /\ UNCHANGED hashVars /\ UNCHANGED auxVars

\* loop body: neither is_file() nor is_dir() holds (a dangling link)
SkipItem ==
  /\ pc = "body" /\ ~PathIsFile(cur) /\ ~PathIsDir(cur)
  /\ pc' = "walk"
  /\ UNCHANGED << fs, stack, pending, cur, yielded, files_data, folders_data,
                  file_types_summary, duplicates, errors, failures, lastBad >>
  /\ UNCHANGED hashVars /\ UNCHANGED auxVars

HasRootRecord(fd) == \E i \in 1 .. Len(fd) : fd[i].path = Root

\* "Add root folder if not already added", then analyze_directory returns
AddRootFolderNever(fd, bad) == fd
AddRootFolder(fd, bad) ==
  IF HasRootRecord(fd) THEN fd
  ELSE Append(fd, FolderInfo(Root, CalculateFolderSize(Root, bad)))

Finalize ==
  /\ pc = "final"
  /\ \E bad \in SUBSET Touched(Root) :
        /\ CanFail(Cardinality(bad))
        /\ folders_data' = AddRootFolder(folders_data, bad)
        /\ failures' = failures \cup WalkFailures(Root, bad)
        /\ lastBad' = bad
  /\ pc' = "done"
  /\ UNCHANGED << fs, stack, pending, cur, yielded, files_data,
                  file_types_summary, duplicates, errors >>
  /\ UNCHANGED hashVars /\ UNCHANGED auxVars

\* an item handler that assigned the log instead of appending to it
ProcessItemFailOverwrites ==
  /\ pc = "body"
  /\ CanRaise
  /\ errors' = << [kind |-> "item", path |-> cur] >>
  /\ failures' = failures \cup {[op |-> "classify", path |-> cur, by |-> None]}
  /\ pc' = "walk"
  /\ UNCHANGED << fs, stack, pending, cur, yielded, files_data, folders_data,
                  file_types_summary, duplicates, lastBad >>
  /\ UNCHANGED hashVars /\ UNCHANGED auxVars

\* loop body: item_path.is_file() or item_path.is_dir() raises (an OSError
\* pathlib does not ignore, such as EACCES); "Error processing item" is
\* logged and the loop goes on.
ProcessItemFail ==
  /\ pc = "body"
  /\ CanRaise
  /\ errors' = Append(errors, [kind |-> "item", path |-> cur])
  /\ failures' = failures \cup {[op |-> "classify", path |-> cur, by |-> None]}
  /\ pc' = "walk"
  /\ UNCHANGED << fs, stack, pending, cur, yielded, files_data, folders_data,
                  file_types_summary, duplicates, lastBad >>
  /\ UNCHANGED hashVars /\ UNCHANGED auxVars

\* a folder handler that swallowed the exception without logging it
ProcessFolderFailSilent ==
  /\ pc = "body" /\ ~PathIsFile(cur) /\ PathIsDir(cur)
  /\ CanRaise
  /\ failures' = failures \cup {[op |-> "folder", path |-> cur, by |-> None]}
  /\ pc' = "walk"
  /\ UNCHANGED << fs, stack, pending, cur, yielded, files_data, folders_data,
                  file_types_summary, duplicates, errors, lastBad >>
  /\ UNCHANGED hashVars /\ UNCHANGED auxVars

\* loop body, item_path.is_dir(): an exception is raised while the record
\* is built (relative_to on a prefixed long path, for one); "Error
\* processing folder" is logged and no FolderRecord is appended.
ProcessFolderFail ==
  /\ pc = "body" /\ ~PathIsFile(cur) /\ PathIsDir(cur)
  /\ CanRaise
  /\ errors' = Append(errors, [kind |-> "folder", path |-> cur])
  /\ failures' = failures \cup {[op |-> "folder", path |-> cur, by |-> None]}
  /\ pc' = "walk"
  /\ UNCHANGED << fs, stack, pending, cur, yielded, files_data, folders_data,
                  file_types_summary, duplicates, lastBad >>
  /\ UNCHANGED hashVars /\ UNCHANGED auxVars

\* an exception that left analyze_directory instead of being caught
CriticalFailPropagates ==
  /\ pc = "walk"
  /\ CanRaise
  /\ failures' = failures \cup {[op |-> "loop", path |-> None, by |-> None]}
  /\ pc' = "crashed"
  /\ UNCHANGED << fs, stack, pending, cur, yielded, files_data, folders_data,
                  file_types_summary, duplicates, errors, lastBad >>
  /\ UNCHANGED hashVars /\ UNCHANGED auxVars

\* for item_path in self.safe_walk(...): resuming the generator raises; the
\* outer handler logs "Critical error during scan", the loop is left and
\* the generators are dropped; the root folder step follows.
CriticalFail ==
  /\ pc = "walk"
  /\ CanRaise
  /\ errors' = Append(errors, [kind |-> "critical", path |-> None])
  /\ failures' = failures \cup {[op |-> "loop", path |-> None, by |-> None]}
  /\ stack' = << >>
  /\ pending' = None
  /\ pc' = "final"
  /\ UNCHANGED << fs, cur, yielded, files_data, folders_data,
                  file_types_summary, duplicates, lastBad >>
  /\ UNCHANGED hashVars /\ UNCHANGED auxVars

\* "Add root folder if not already added": an exception is raised while
\* the root record is built; "Error calculating root folder size" is logged
\* and analyze_directory returns without a record for the root.
FinalizeFail ==
  /\ pc = "final" /\ ~HasRootRecord(folders_data)
  /\ CanRaise
  /\ errors' = Append(errors, [kind |-> "root", path |-> Root])
  /\ failures' = failures \cup {[op |-> "rootcalc", path |-> Root, by |-> None]}
  /\ pc' = "done"
  /\ UNCHANGED << fs, stack, pending, cur, yielded, files_data, folders_data,
                  file_types_summary, duplicates, lastBad >>
  /\ UNCHANGED hashVars /\ UNCHANGED auxVars

\* ------------------------------------------- create_duplicates_sheet
RECURSIVE PathOf(_)
\* str(file_path): the names from the scan root down to the entry
PathOf(n) == IF n = Root THEN << >> ELSE Append(PathOf(Parent(n)), n)

RECURSIVE SeqLess(_, _, _)
\* string comparison of two paths, name by name from position i on
SeqLess(a, b, i) ==
  IF i > Len(a) THEN i <= Len(b)
  ELSE IF i > Len(b) THEN FALSE
  ELSE IF a[i] # b[i] THEN a[i] < b[i]
  ELSE SeqLess(a, b, i + 1)

PathLess(m, n) == SeqLess(PathOf(m), PathOf(n), 1)

\* duplicate_groups = {h: files ... if len(files) > 1}
DuplicateGroupsAll(d) == DOMAIN d
DuplicateGroups(d) == { h \in DOMAIN d : Len(d[h]) > 1 }

\* position of a digest among the keys of self.duplicates: a dict keeps its
\* keys in the order they were first inserted, which is the order in which
\* the digests first occur in files_data
KeyIndex(h) ==
  CHOOSE i \in 1 .. Len(files_data) :
     /\ files_data[i].hash = h
     /\ \A j \in 1 .. (i - 1) : files_data[j].hash # h

\* key=lambda x: x[1][0]['size']: the size of the member registered first
GroupKey(h) == duplicates[h][1].size

\* sorted(..., reverse=True) is stable: of two groups the one with the
\* larger key comes first, groups of equal key stay in dict order
GroupBefore(g, h) ==
  \/ GroupKey(g) > GroupKey(h)
  \/ GroupKey(g) = GroupKey(h) /\ KeyIndex(g) <= KeyIndex(h)

RECURSIVE SortGroups(_)
SortGroups(S) ==
  IF S = {} THEN << >>
  ELSE LET g == CHOOSE x \in S : \A y \in S : GroupBefore(x, y)
       IN << g >> \o SortGroups(S \ {g})

RECURSIVE SortByPathOf(_, _)
\* the members of q at the positions S, smallest path first
SortByPathOf(q, S) ==
  IF S = {} THEN << >>
  ELSE LET i == CHOOSE x \in S :
                  \A y \in S : x = y \/ PathLess(q[x].path, q[y].path)
       IN << q[i] >> \o SortByPathOf(q, S \ {i})

\* files_sorted = sorted(files, key=lambda x: x['path'])
SortByPathKept(q) == q
SortByPath(q) == SortByPathOf(q, DOMAIN q)

\* the groups of the sheet, top to bottom, each with its rows
DuplicatesSheet ==
  LET order == SortGroups(DuplicateGroups(duplicates))
  IN [i \in 1 .. Len(order) |->
        [hash |-> order[i], files |-> SortByPath(duplicates[order[i]])]]

\* create_excel_report after the scan: the "Duplicate Files" sheet is written
CreateDuplicatesSheet ==
  /\ pc = "done"
  /\ sheet' = DuplicatesSheet
  /\ pc' = "reported"
  /\ UNCHANGED << fs, stack, pending, cur, yielded, files_data, folders_data,
                  file_types_summary, duplicates, errors, failures, lastBad >>
  /\ UNCHANGED << rev, prev >>
  /\ UNCHANGED hashVars

Next ==
  \/ ScanDirOk \/ ScanDirFail \/ YieldItem \/ WalkReturn \/ WalkExhausted
  \/ ProcessFile \/ ProcessFileStatFail \/ ProcessFolder \/ SkipItem
  \/ Finalize

Spec == Init /\ [][Next]_vars

\* Whether the scan ends depends on the shape of the tree, not on what the
\* files hold: the trees of the fair specification have files of one content
\* and links that dangle or point back to the root or to their own directory.
PlainTrees ==
  { t \in Trees :
      \A n \in 1 .. Len(t) :
         /\ t[n].kind = "file" => t[n].prof = 1
         /\ t[n].kind = "link" => t[n].tgt \in {None, Root, t[n].parent} }

FairInit == Init /\ fs \in PlainTrees

\* The scan is one sequential flow of control: whichever step is enabled is
\* eventually taken.
FairSpec == FairInit /\ [][Next]_vars /\ WF_vars(Next)

\* ------------------------------------- the scan with raised exceptions
\* Besides failing file-system calls an exception may be raised in the
\* driver itself: each of its handlers is then exercised.
ErrNext ==
  \/ Next
  \/ ProcessItemFail \/ ProcessFolderFail \/ CriticalFail \/ FinalizeFail

ErrSpec == FairInit /\ [][ErrNext]_vars

\* ------------------------------------------------ two scans of a tree
RECURSIVE SumSizes(_, _)
\* total_size = sum(f['size_bytes'] for f in self.files_data), from
\* position i on
SumSizes(fd, i) ==
  IF i > Len(fd) THEN 0 ELSE fd[i].size_bytes + SumSizes(fd, i + 1)

\* len(analyzer.files_data), len(analyzer.folders_data) and the total size
\* of the summary, with the listing order the scan met
Totals ==
  [files |-> Len(files_data), folders |-> Len(folders_data),
   size |-> SumSizes(files_data, 1), rev |-> rev]

\* self.files_data = [] in __init__: every DiskAnalyzer has a list of its own
SharedList(q) == q
FreshList(q) == << >>

\* a second DiskAnalyzer is constructed for the same root and scans it, after
\* a first scan that met no failure; the file system may list the
\* directories in another order this time
Rescan ==
  /\ pc = "done" /\ prev = NoTotals /\ failures = {}
  /\ prev' = Totals
  /\ rev' \in BOOLEAN
  /\ pc' = "walk"
  /\ stack' = << >>
  /\ pending' = Root
  /\ cur' = None
  /\ yielded' = << >>
  /\ files_data' = FreshList(files_data)
  /\ folders_data' = FreshList(folders_data)
  /\ file_types_summary' = EmptyMap
  /\ duplicates' = EmptyMap
  /\ errors' = FreshList(errors)
  /\ lastBad' = {}
  /\ UNCHANGED << fs, failures, sheet >>
  /\ UNCHANGED hashVars

TwoScanInit ==
  /\ fs \in Trees
  /\ rev \in BOOLEAN
  /\ pc = "walk"
  /\ stack = << >>
  /\ pending = Root
  /\ cur = None
  /\ yielded = << >>
  /\ files_data = << >>
  /\ folders_data = << >>
  /\ file_types_summary = EmptyMap
  /\ duplicates = EmptyMap
  /\ errors = << >>
  /\ failures = {}
  /\ lastBad = {}
  /\ hfiles = << >>
  /\ hdigests = << >>
  /\ sheet = << >>
  /\ prev = NoTotals

TwoScanNext == Next \/ Rescan

TwoScanSpec == TwoScanInit /\ [][TwoScanNext]_vars

\* --------------------------------------------- scan and report of files
MaxFiles == 4

\* MaxFiles files side by side in the scan root
FlatTrees ==
  [1 .. MaxFiles ->
     { [parent |-> Root, kind |-> "file", tgt |-> None, prof |-> i] :
         i \in (Len(MainProfiles) + 1) .. Len(Profiles) }]

ReportInit ==
  /\ fs \in FlatTrees
  /\ rev \in BOOLEAN
  /\ pc = "walk"
  /\ stack = << >>
  /\ pending = Root
  /\ cur = None
  /\ yielded = << >>
  /\ files_data = << >>
  /\ folders_data = << >>
  /\ file_types_summary = EmptyMap
  /\ duplicates = EmptyMap
  /\ errors = << >>
  /\ failures = {}
  /\ lastBad = {}
  /\ hfiles = << >>
  /\ hdigests = << >>
  /\ sheet = << >>
  /\ prev = NoTotals

\* main(): analyzer.analyze_directory(); analyzer.create_excel_report(...)
ReportNext ==
  \/ ScanDirOk \/ YieldItem \/ WalkReturn \/ WalkExhausted
  \/ ProcessFile \/ Finalize \/ CreateDuplicatesSheet

ReportSpec == ReportInit /\ [][ReportNext]_vars

\* ------------------------------------------------- hashing two files
HashSizes == {0, 10, HashLimit - 1, HashLimit, HashLimit + 1, 2 * HashLimit}

\* Contents by size, first 1 MiB and remainder; an empty file has neither,
\* a file of at most 1 MiB has no remainder.
Contents ==
  { c \in [size : HashSizes, head : 0 .. NumHeads, tail : 0 .. NumHeads] :
      /\ (c.size = 0) <=> (c.head = 0)
      /\ (c.size <= HashLimit) <=> (c.tail = 0) }

HashInit ==
  /\ hfiles \in Contents \X Contents
  /\ hdigests = << >>
  /\ fs = << >>
  /\ pc = "hash"
  /\ stack = << >>
  /\ pending = None
  /\ cur = None
  /\ yielded = << >>
  /\ files_data = << >>
  /\ folders_data = << >>
  /\ file_types_summary = EmptyMap
  /\ duplicates = EmptyMap
  /\ errors = << >>
  /\ failures = {}
  /\ lastBad = {}
  /\ rev = FALSE
  /\ sheet = << >>
  /\ prev = NoTotals

\* get_file_hash on the first file, then on the second
HashFile ==
  /\ pc = "hash" /\ Len(hdigests) < 2
  /\ \E readOk \in BOOLEAN :
       hdigests' = Append(hdigests, GetFileHash(hfiles[Len(hdigests) + 1], readOk))
  /\ UNCHANGED hfiles
  /\ UNCHANGED scanVars /\ UNCHANGED auxVars

HashNext == HashFile

HashSpec == HashInit /\ [][HashNext]_vars

\* ------------------------------------------------------------ properties
Range(q) == { q[i] : i \in 1 .. Len(q) }

NoRepeat(q) == \A i, j \in 1 .. Len(q) : i # j => q[i] # q[j]

\* directories whose listing failed in safe_walk
ScanFailed == { f.path : f \in { g \in failures : g.op = "scandir" } }

\* entries no failed listing hides: every directory above them was listed
Listable == { n \in Nodes : Ancestors(n) \cap ScanFailed = {} }

WalkOver == pc \in {"final", "done"}

\* C1: safe_walk yields each entry of the tree exactly once: nothing is
\* yielded twice (so nothing is yielded again through a symbolic link to a
\* directory), and when the walk is over every entry that can be reached
\* through listed directories has been yielded.
C1_YieldedExactlyOnce ==
  /\ NoRepeat(yielded)
  /\ WalkOver => Range(yielded) = Listable

LinkToPopulatedDir(l) ==
  IsLink(l) /\ PathIsDir(l) /\ Children(Resolve(l)) # {}

C1_Witness ==
  /\ pc = "done" /\ failures = {}
  /\ Len(yielded) = MaxNodes
  /\ \E l \in Nodes : LinkToPopulatedDir(l)

\* C2: the yielded sequence is in pre-order: a directory comes before each
\* of its descendants, and its descendants form one uninterrupted run right
\* after it, so all of them precede the directory's later siblings.
C2_PreOrder ==
  /\ \A j \in 1 .. Len(yielded) :
       \A a \in Ancestors(yielded[j]) \ {Root} :
          \E i \in 1 .. (j - 1) : yielded[i] = a
  /\ \A i, j, k \in 1 .. Len(yielded) :
       (i < j /\ j < k /\ yielded[i] \in Ancestors(yielded[k]))
          => yielded[i] \in Ancestors(yielded[j])

C2_Witness ==
  /\ pc = "done"
  /\ \E i, j, k \in 1 .. Len(yielded) :
       /\ i < j /\ j < k
       /\ Parent(yielded[j]) = yielded[i]
       /\ Parent(yielded[k]) = Parent(yielded[i])

HasFileRecord(n) == \E i \in 1 .. Len(files_data) : files_data[i].path = n
HasFolderRecord(n) == \E i \in 1 .. Len(folders_data) : folders_data[i].path = n
StatFailed(n) == [op |-> "stat", path |-> n, by |-> None] \in failures
HasError(k, n) == \E i \in 1 .. Len(errors) : errors[i] = [kind |-> k, path |-> n]

\* the driver loop has dealt with a yielded entry
Processed(n) ==
  /\ PathIsFile(n) => (HasFileRecord(n) \/ StatFailed(n))
  /\ PathIsDir(n) => HasFolderRecord(n)

C3_Completed ==
  /\ pc = "done"
  /\ \A d \in ScanFailed : HasError("scan", d)
  /\ \A n \in Listable : n \in Range(yielded) /\ Processed(n)

\* C3: once the listing of a directory D has failed, the error log names D
\* and the scan still runs to its end, having yielded and processed every
\* entry that does not lie beneath a directory whose listing failed.
C3_ListFailureContained ==
  /\ [](\A d \in ScanFailed : HasError("scan", d))
  /\ (ScanFailed # {}) ~> C3_Completed

C3_Witness ==
  /\ pc = "done"
  /\ \E d \in ScanFailed \ {Root} :
       /\ Children(d) # {}
       /\ \E n \in Nodes : n > d /\ n \notin Children(d) /\ Processed(n)
                           /\ n \in Range(yielded)

\* C4: analyze_directory finishes on every tree, symbolic links that point
\* back to an ancestor directory included.
C4_Terminates == <>(pc = "done")

LinkToAncestor(l) == IsLink(l) /\ Resolve(l) \in Ancestors(l)

C4_Witness ==
  /\ pc = "done"
  /\ \E l \in Nodes : LinkToAncestor(l) /\ HasFolderRecord(l)

RootRecords == { i \in 1 .. Len(folders_data) : folders_data[i].path = Root }

\* C5: when analyze_directory has returned there is exactly one FolderRecord
\* for the scan root, at depth 0; for an empty root there are no FileRecords
\* and that record, with size 0 and both counts 0, is the only FolderRecord.
C5_RootRecord ==
  pc = "done" =>
    /\ Cardinality(RootRecords) = 1
    /\ \A i \in RootRecords : folders_data[i].depth = 0
    /\ Children(Root) = {} =>
         /\ files_data = << >>
         /\ Len(folders_data) = 1
         /\ folders_data[1].size_bytes = 0
         /\ folders_data[1].file_count = 0
         /\ folders_data[1].subfolder_count = 0

C5_Witness ==
  /\ pc = "done" /\ Children(Root) = {}
  /\ Len(folders_data) = 1 /\ folders_data[1].path = Root

RECURSIVE SumRecordSizes(_)
\* sum of size_bytes over a set of positions of files_data
SumRecordSizes(S) ==
  IF S = {} THEN 0
  ELSE LET i == CHOOSE x \in S : TRUE
       IN files_data[i].size_bytes + SumRecordSizes(S \ {i})

FileRecordsUnder(d) ==
  { j \in 1 .. Len(files_data) : d \in Ancestors(files_data[j].path) }
FolderRecordsUnder(d) ==
  { k \in 1 .. Len(folders_data) : d \in Ancestors(folders_data[k].path) }

NoDangling == \A n \in Nodes : IsLink(n) => Resolve(n) # None

\* C6: after a scan of an unchanging tree in which no filesystem call
\* failed, every FolderRecord's size is the sum of the sizes of the
\* FileRecords beneath its path, its file count is their number and its
\* subfolder count the number of FolderRecords beneath its path.
C6_AggregatesMatchRecords ==
  (pc = "done" /\ failures = {} /\ NoDangling) =>
    \A i \in 1 .. Len(folders_data) :
       LET r == folders_data[i]
       IN /\ r.size_bytes = SumRecordSizes(FileRecordsUnder(r.path))
          /\ r.file_count = Cardinality(FileRecordsUnder(r.path))
          /\ r.subfolder_count = Cardinality(FolderRecordsUnder(r.path))

LastFolder == folders_data[Len(folders_data)]
LoggedFailures == { f \in failures : f.op \in {"scandir", "stat"} }

\* C7: a file whose size cannot be read during calculate_folder_size is
\* passed over: compared with the same walk without failures the total is
\* short by exactly the sizes of the failing files, the counts are the same,
\* and the error log holds nothing for it (its entries are those of the
\* failed listings and stats of the scanner only).
C7_SizeFailureSkipped ==
  /\ Len(errors) = Cardinality(LoggedFailures)
  /\ (folders_data # << >> /\ \A b \in lastBad : ~PathIsDir(b)) =>
       LET clean == CalculateFolderSize(LastFolder.path, {})
       IN /\ LastFolder.size_bytes + SumFileSizes(lastBad, {}, 1) = clean.size
          /\ LastFolder.file_count = clean.files
          /\ LastFolder.subfolder_count = clean.subs

C7_Witness ==
  /\ folders_data # << >>
  /\ \E b \in lastBad : PathIsFile(b) /\ b = CHOOSE m \in WalkFiles(LastFolder.path, {}) :
                                               \A o \in WalkFiles(LastFolder.path, {}) : m <= o
  /\ LastFolder.file_count >= 2
  /\ LastFolder.size_bytes > 0
  /\ errors = << >>

StatFailures == { f \in failures : f.op = "stat" }

\* C8: the step in which os.stat fails for a yielded file appends exactly
\* one error entry, naming that file, and leaves files_data, the duplicate
\* index and the per-extension summary as they were; the generator is left
\* intact and the driver goes back to it for the next entry.
C8_StatFailureSkipsEntry ==
  [][ (StatFailures' # StatFailures) =>
        /\ \E f \in StatFailures' \ StatFailures :
              errors' = Append(errors, [kind |-> "file", path |-> f.path])
        /\ files_data' = files_data
        /\ duplicates' = duplicates
        /\ file_types_summary' = file_types_summary
        /\ stack' = stack /\ pending' = pending /\ pc' = "walk" ]_vars

C8_Witness ==
  /\ pc = "done"
  /\ \E n \in Nodes :
       /\ StatFailed(n) /\ HasError("file", n) /\ ~HasFileRecord(n)
       /\ \E m \in Nodes : m > n /\ HasFileRecord(m)

ReadFailed(n) == [op |-> "read", path |-> n, by |-> None] \in failures
Registered(n) ==
  \E h \in DOMAIN duplicates :
     \E j \in 1 .. Len(duplicates[h]) : duplicates[h][j].path = n
ActualSize(n) == MainProfiles[fs[Resolve(n)].prof].size
Handled(n) == n \in Range(yielded) /\ ~(pc = "body" /\ cur = n)

\* C9: a scanned file is in the duplicate index exactly when its size is
\* below 100 MiB and its content could be hashed; every file whose stat
\* succeeded has a FileRecord with its real size, and the record carries a
\* digest exactly when the file is in the index.
C9_DedupCeiling ==
  /\ \A i \in 1 .. Len(files_data) :
       LET r == files_data[i]
       IN /\ Registered(r.path) <=>
               (r.size_bytes < 100 * 1024 * 1024 /\ ~ReadFailed(r.path))
          /\ (r.hash # NoHash) <=> Registered(r.path)
          /\ r.size_bytes = ActualSize(r.path)
  /\ \A n \in Nodes :
       (Handled(n) /\ PathIsFile(n) /\ ~StatFailed(n)) => HasFileRecord(n)
  /\ \A n \in Nodes : Registered(n) => HasFileRecord(n)

C9_Witness ==
  /\ pc = "done"
  /\ \E i, j, k \in 1 .. Len(files_data) :
       /\ files_data[i].size_bytes >= 100 * 1024 * 1024
       /\ ~Registered(files_data[i].path)
       /\ ReadFailed(files_data[j].path) /\ ~Registered(files_data[j].path)
       /\ Registered(files_data[k].path)

HashDone == pc = "hash" /\ Len(hdigests) = 2
BothHashed == HashDone /\ hdigests[1] # NoHash /\ hdigests[2] # NoHash

\* the two files agree on their first 1 MiB (or on all they have, when
\* shorter) and are not the same content
DifferOnlyAfterLimit(a, b) ==
  /\ a # b
  /\ a.head = b.head
  /\ (IF a.size < 1024 * 1024 THEN a.size ELSE 1024 * 1024)
       = (IF b.size < 1024 * 1024 THEN b.size ELSE 1024 * 1024)

\* C10 as stated: files of at most 1 MiB have equal digests exactly when
\* their contents are identical, and files that differ only after their
\* first 1 MiB have equal digests only when both are larger than 1 MiB.
C10_Original ==
  BothHashed =>
    LET a == hfiles[1]
        b == hfiles[2]
    IN /\ (a.size <= 1024 * 1024 /\ b.size <= 1024 * 1024)
            => ((hdigests[1] = hdigests[2]) <=> (a = b))
       /\ (DifferOnlyAfterLimit(a, b) /\ hdigests[1] = hdigests[2])
            => (a.size > 1024 * 1024 /\ b.size > 1024 * 1024)

\* C10, amended: files of at most 1 MiB have equal digests exactly when
\* their contents are identical; two different files have equal digests
\* exactly when they differ only after their first 1 MiB, which needs both
\* to be at least 1 MiB long and one of them longer -- the other may be
\* exactly 1 MiB.
C10_QuickHash ==
  BothHashed =>
    LET a == hfiles[1]
        b == hfiles[2]
    IN /\ (a.size <= 1024 * 1024 /\ b.size <= 1024 * 1024)
            => ((hdigests[1] = hdigests[2]) <=> (a = b))
       /\ (a # b) =>
            ((hdigests[1] = hdigests[2]) <=> DifferOnlyAfterLimit(a, b))
       /\ (a # b /\ hdigests[1] = hdigests[2]) =>
            /\ a.size >= 1024 * 1024 /\ b.size >= 1024 * 1024
            /\ (a.size > 1024 * 1024 \/ b.size > 1024 * 1024)

C10_Witness ==
  /\ BothHashed
  /\ hfiles[1].size = 1024 * 1024 /\ hfiles[2].size > 1024 * 1024
  /\ hfiles[1].head = hfiles[2].head
  /\ hdigests[1] = hdigests[2]

SheetRows == 1 .. Len(sheet)

\* C11: the groups written to the duplicates sheet (the duplicate index
\* filtered at report time) all have at least two members, and every member
\* is a file whose FileRecord carries the digest that keys the group.
C11_FinalGroups ==
  \A i \in SheetRows :
     /\ Len(sheet[i].files) >= 2
     /\ \A m \in Range(sheet[i].files) :
          \E k \in 1 .. Len(files_data) :
             files_data[k].path = m.path /\ files_data[k].hash = sheet[i].hash

C11_Witness ==
  /\ pc = "reported" /\ sheet # << >>
  /\ \E h \in DOMAIN duplicates : Len(duplicates[h]) = 1

MembersByPath ==
  \A i \in SheetRows :
     \A j, k \in 1 .. Len(sheet[i].files) :
        j < k => PathLess(sheet[i].files[j].path, sheet[i].files[k].path)

\* C12 as stated: in the sheet the members of each group are in path order
\* and the groups are in descending order of the size of their
\* smallest-path member, whatever the sizes and the insertion order.
C12_Original ==
  /\ MembersByPath
  /\ \A i, j \in SheetRows :
       i < j => sheet[i].files[1].size >= sheet[j].files[1].size

\* C12, amended: the sheet holds exactly the groups of two or more members,
\* each with exactly its members in path order, and the groups are in
\* descending order of the size of the member that was registered first.
C12_SheetOrder ==
  pc = "reported" =>
    /\ MembersByPath
    /\ { sheet[i].hash : i \in SheetRows } = DuplicateGroups(duplicates)
    /\ \A i, j \in SheetRows : i # j => sheet[i].hash # sheet[j].hash
    /\ \A i \in SheetRows :
         /\ Len(sheet[i].files) = Len(duplicates[sheet[i].hash])
         /\ Range(sheet[i].files) = Range(duplicates[sheet[i].hash])
    /\ \A i, j \in SheetRows :
         i < j => duplicates[sheet[i].hash][1].size
                    >= duplicates[sheet[j].hash][1].size

C12_Witness ==
  /\ pc = "reported" /\ Len(sheet) = 2
  /\ sheet[1].files[1].size < sheet[2].files[1].size
  /\ duplicates[sheet[1].hash][1].path # sheet[1].files[1].path

\* C13: at every point of a scan a file path occurs at most once in the
\* duplicate index, over all groups and all positions within them.
C13_PathOnce ==
  \A h \in DOMAIN duplicates :
     \A g \in DOMAIN duplicates :
        \A i \in 1 .. Len(duplicates[h]) :
           \A j \in 1 .. Len(duplicates[g]) :
              (duplicates[h][i].path = duplicates[g][j].path)
                 => (h = g /\ i = j)

C13_Witness ==
  /\ pc = "done"
  /\ Cardinality(DOMAIN duplicates) = 2
  /\ \E h \in DOMAIN duplicates : Len(duplicates[h]) = 2

IsPrefix(a, b) == Len(a) <= Len(b) /\ \A i \in 1 .. Len(a) : a[i] = b[i]

\* the for loop of analyze_directory was left by an exception
Critical == \E f \in failures : f.op = "loop"

\* C14: analyze_directory never ends in an exception.  The step in which
\* resuming the scanner raises appends one critical error and leaves the
\* loop with every FileRecord and FolderRecord, the duplicate index and the
\* summary as they were; from then on nothing more is yielded or processed,
\* the records stay, and only the root's FolderRecord may still be added.
C14_CriticalKeepsRecords ==
  /\ [](pc \in {"walk", "body", "final", "done"})
  /\ [][ /\ (Critical' /\ ~Critical) =>
              ( /\ errors' = Append(errors, [kind |-> "critical", path |-> None])
                /\ files_data' = files_data
                /\ folders_data' = folders_data
                /\ duplicates' = duplicates
                /\ file_types_summary' = file_types_summary
                /\ pc' = "final" )
         /\ Critical =>
              ( /\ yielded' = yielded
                /\ files_data' = files_data
                /\ IsPrefix(folders_data, folders_data')
                /\ IsPrefix(errors, errors')
                /\ pc' = "done" ) ]_vars

C14_Witness ==
  /\ pc = "done" /\ Critical
  /\ HasError("critical", None)
  /\ files_data # << >>
  /\ Len(folders_data) >= 2
  /\ Len(yielded) < Len(fs)

\* C15 as stated: when analyze_directory has returned, a failure met
\* during the scan -- a listing, a stat, a read for hashing, a failure
\* during folder aggregation -- has left at least one entry in the error
\* log (read here in its weakest sense: the log is not empty).
C15_Original ==
  pc = "done" => \A f \in failures : Len(errors) >= 1

\* what the handlers log for a failure, by the call that failed
ErrorKind(op) ==
  CASE op = "scandir" -> "scan"
    [] op = "stat" -> "file"
    [] op = "classify" -> "item"
    [] op = "folder" -> "folder"
    [] op = "loop" -> "critical"
    [] op = "rootcalc" -> "root"

SilentOps == {"read", "walk"}

\* C15, amended: every directory the scanner cannot list, every file that
\* cannot be stat'd and every exception raised in the driver leaves its own
\* entry in the error log; a file whose content cannot be read for hashing
\* and a failure inside calculate_folder_size leave none, so the log has
\* exactly one entry per failure of the first kind.
C15_LoggedFailures ==
  /\ \A f \in failures :
       f.op \notin SilentOps => HasError(ErrorKind(f.op), f.path)
  /\ Len(errors) = Cardinality({ f \in failures : f.op \notin SilentOps })

C15_Witness ==
  /\ pc = "done"
  /\ \E f \in failures : f.op = "read"
  /\ \E f \in failures : f.op = "classify"
  /\ Len(errors) = 1

SecondScanDone == pc = "done" /\ prev # NoTotals

\* C16: two complete scans of the same tree in which no call failed end
\* with the same number of FileRecords, the same number of FolderRecords
\* and the same total size, whether or not the directories were listed in
\* the same order both times.
C16_SameTotals ==
  (SecondScanDone /\ failures = {}) =>
     /\ Totals.files = prev.files
     /\ Totals.folders = prev.folders
     /\ Totals.size = prev.size

C16_Witness ==
  /\ SecondScanDone /\ failures = {}
  /\ prev.rev # rev
  /\ prev.files >= 2 /\ prev.folders >= 2 /\ prev.size > 10
  /\ files_data[1].size_bytes # files_data[2].size_bytes
  /\ Cardinality(Children(Root)) >= 2

\* building the FolderRecord of d raised
FolderRaised(d) == [op |-> "folder", path |-> d, by |-> None] \in failures

\* calculate_folder_size(d) could not list the directory d names: nothing
\* beneath d was aggregated
AggregationFailed(d) ==
  [op |-> "walk", path |-> Resolve(d), by |-> d] \in failures

\* C17 as stated: for a yielded directory whose processing failed at
\* directory level -- the record could not be built, or its subtree could
\* not be aggregated -- something is logged and the folder collection has no
\* FolderRecord for it.
C17_Original ==
  \A d \in Nodes :
     (Handled(d) /\ (FolderRaised(d) \/ AggregationFailed(d)))
        => (Len(errors) >= 1 /\ ~HasFolderRecord(d))

FolderRaises == { f \in failures : f.op = "folder" }

\* C17, amended: the step in which building a directory's FolderRecord
\* raises logs one "folder" error naming the directory, adds no FolderRecord
\* and leaves the FileRecords and the scanner as they were, so the files
\* beneath the directory are still yielded and recorded; a directory whose
\* subtree could not be listed by calculate_folder_size is no such failure:
\* it gets a FolderRecord with size and counts 0.
C17_FolderFailure ==
  /\ [](\A d \in Nodes :
          /\ FolderRaised(d) => (HasError("folder", d) /\ ~HasFolderRecord(d))
          /\ (Handled(d) /\ AggregationFailed(d) /\ ~FolderRaised(d)
                /\ [op |-> "classify", path |-> d, by |-> None] \notin failures)
               => \E i \in 1 .. Len(folders_data) :
                     /\ folders_data[i].path = d
                     /\ folders_data[i].size_bytes = 0
                     /\ folders_data[i].file_count = 0
                     /\ folders_data[i].subfolder_count = 0)
  /\ [][ (FolderRaises' # FolderRaises) =>
           ( /\ errors' = Append(errors, [kind |-> "folder", path |-> cur])
             /\ folders_data' = folders_data
             /\ files_data' = files_data
             /\ stack' = stack /\ pending' = pending /\ pc' = "walk" ) ]_vars

C17_Witness ==
  /\ pc = "done"
  /\ \E d \in Nodes :
       /\ FolderRaised(d) /\ ~HasFolderRecord(d)
       /\ \E f \in Children(d) : HasFileRecord(f)
  /\ \E e \in Nodes : AggregationFailed(e) /\ HasFolderRecord(e)

FileRecords == 1 .. Len(files_data)

\* C18 as stated: when analyze_directory has returned, the parent_folder of
\* every FileRecord is the path of a FolderRecord, the root's included.
C18_Original ==
  pc = "done" =>
    \A i \in FileRecords : HasFolderRecord(files_data[i].parent_folder)

\* the error log names d as a directory whose processing raised
ProcessingLogged(d) ==
  \/ HasError("folder", d)
  \/ HasError("item", d)
  \/ d = Root /\ HasError("root", Root)

\* C18, amended: when analyze_directory has returned, the parent_folder of
\* every FileRecord is the path of a FolderRecord (the root's included) or
\* of a directory whose own processing raised, which the error log names.
C18_ParentRecorded ==
  pc = "done" =>
    \A i \in FileRecords :
       \/ HasFolderRecord(files_data[i].parent_folder)
       \/ ProcessingLogged(files_data[i].parent_folder)

C18_Witness ==
  /\ pc = "done"
  /\ \E i \in FileRecords :
       /\ files_data[i].parent_folder # Root
       /\ ~HasFolderRecord(files_data[i].parent_folder)
       /\ HasError("folder", files_data[i].parent_folder)
  /\ \E j \in FileRecords :
       /\ files_data[j].parent_folder = Root
       /\ HasFolderRecord(Root)

\* C19: the error log is append-only: a step of the scan leaves the log as
\* it is or adds one entry at its end, so the log before the step is a
\* prefix of the log after it and no entry is ever removed or merged with
\* an earlier one.
C19_AppendOnly ==
  [][ /\ IsPrefix(errors, errors')
      /\ Len(errors') <= Len(errors) + 1 ]_vars

C19_Witness ==
  /\ pc = "done"
  /\ Len(errors) = 2
  /\ errors[1].kind = "scan" /\ errors[2].kind = "item"

====
